---------------------------- MODULE Spec2Model ----------------------------
(***************************************************************************)
(* xaml2svg: conversion of a WPF ResourceDictionary of DrawingImage icons  *)
(* into SVG documents (src/xaml2svg/__main__.py).                          *)
(*                                                                         *)
(* Python strings are TLA+ strings (Len, SubSeq and \o act on them).       *)
(* An XML element is a record [tag, attrib, children]: attrib is a         *)
(* function from the names of the attributes that are present to their     *)
(* values for an input element, and the ordered sequence of <<name,        *)
(* value>> pairs for an output element (ElementTree keeps and writes the   *)
(* insertion order).  A function that can raise returns a record with the  *)
(* field exc: "" when it returned, the exception's class otherwise; what   *)
(* it had appended to the output tree before raising stays in els.         *)
(***************************************************************************)
EXTENDS Integers, Sequences, FiniteSets, TLC

VARIABLES
    wellformed, \* whether ETree.parse can read the input file
    root,       \* children of the ResourceDictionary, in document order
    pos,        \* index of the next DrawingImage of main's loop
    files,      \* the output directory: a set of [name, doc]
    pc,         \* "start", "loop", "done" or "raised"
    call,       \* a direct call of one function: [fn, ...arguments]
    ret         \* what the call returned

vars == <<wellformed, root, pos, files, pc, call, ret>>

----------------------------------------------------------------------------
(* Bounds of the model *)

MaxEntries == 2
MaxItems == 2
MaxGeoms == 2
MaxTransforms == 2

----------------------------------------------------------------------------
(* Names of the source *)

ATTR_KEY == "x:Key"
ATTR_X == "X"
ATTR_Y == "Y"
ATTR_ANGLE == "Angle"
ATTR_RECT == "Rect"
ATTR_GEOMETRY == "Geometry"
ATTR_BRUSH == "Brush"
ATTR_COLOR == "Color"
ATTR_OPACITY == "Opacity"
ATTR_CENTER == "Center"
ATTR_RADIUS_X == "RadiusX"
ATTR_RADIUS_Y == "RadiusY"

ELEM_DRAWING_IMAGE == "DrawingImage"
ELEM_DRAWING_IMAGE_DRAWING == "DrawingImage.Drawing"
ELEM_DRAWING_GROUP == "DrawingGroup"
ELEM_DRAWING_GROUP_TRANSFORM == ELEM_DRAWING_GROUP \o ".Transform"
ELEM_TRANSFORM_GROUP == "TransformGroup"
ELEM_TRANSFORM_ROTATE == "RotateTransform"
ELEM_TRANSFORM_TRANSLATE == "TranslateTransform"
ELEM_GEOMETRY_DRAWING == "GeometryDrawing"
ELEM_GEOMETRY_DRAWING_BRUSH == ELEM_GEOMETRY_DRAWING \o "." \o ATTR_BRUSH
ELEM_GEOMETRY_DRAWING_GEOMETRY == ELEM_GEOMETRY_DRAWING \o "." \o ATTR_GEOMETRY
ELEM_ELLIPSE == "EllipseGeometry"
ELEM_RECTANGLE == "RectangleGeometry"
ELEM_GEOMETRY_GROUP == "GeometryGroup"
ELEM_RADIAL_GRADIENT_BRUSH == "RadialGradientBrush"
ELEM_SOLID_COLOR_BRUSH == "SolidColorBrush"

NO_COLOR == "none"
FULL_OPACITY == "1"

----------------------------------------------------------------------------
(* Python's str, int and float operations, as far as the program uses them *)

Char(s, i) == SubSeq(s, i, i)

StartsWith(s, p) == Len(p) <= Len(s) /\ SubSeq(s, 1, Len(p)) = p

EndsWith(s, p) == Len(p) <= Len(s) /\ SubSeq(s, Len(s) - Len(p) + 1, Len(s)) = p

\* s[i:], 0-based as in Python
From(s, i) == SubSeq(s, i + 1, Len(s))

\* s[i:j]
Slice(s, i, j) == SubSeq(s, i + 1, IF j < Len(s) THEN j ELSE Len(s))

RemovePrefix(s, p) == IF StartsWith(s, p) THEN From(s, Len(p)) ELSE s

UpperCase == "ABCDEFGHIJKLMNOPQRSTUVWXYZ"
LowerCase == "abcdefghijklmnopqrstuvwxyz"
DecDigits == "0123456789"
HexDigits == "0123456789abcdef"

\* position (1-based) of the one-character string c in s, 0 when absent
IndexIn(c, s) ==
    LET hits == {i \in 1..Len(s) : Char(s, i) = c}
    IN  IF hits = {} THEN 0 ELSE CHOOSE i \in hits : \A j \in hits : i <= j

LowerAt(c, i) == IF i = 0 THEN c ELSE Char(LowerCase, i)

LowerChar(c) == LowerAt(c, IndexIn(c, UpperCase))

\* s.lower()
Lower(s) ==
    LET low[i \in 0..Len(s)] == IF i = 0 THEN "" ELSE low[i - 1] \o LowerChar(Char(s, i))
    IN  low[Len(s)]

IsDigit(c) == IndexIn(c, DecDigits) > 0

\* str(n) for an int n >= 0
RECURSIVE IntToStr(_)
IntToStr(n) ==
    IF n < 10 THEN Char(DecDigits, n + 1)
    ELSE IntToStr(n \div 10) \o Char(DecDigits, (n % 10) + 1)

AllDigits(s) == \A i \in 1..Len(s) : IsDigit(Char(s, i))

\* the value of a string of decimal digits
DigitsVal(s) ==
    LET val[i \in 0..Len(s)] ==
            IF i = 0 THEN 0 ELSE 10 * val[i - 1] + IndexIn(Char(s, i), DecDigits) - 1
    IN  val[Len(s)]

RECURSIVE Pow10(_)
Pow10(k) == IF k = 0 THEN 1 ELSE 10 * Pow10(k - 1)

\* s.split(','): the pieces of s between commas
Split(s) ==
    LET cuts == {0, Len(s) + 1} \cup {i \in 1..Len(s) : Char(s, i) = ","}
        \* the k-th cut, counted from 1
        cut(k) == CHOOSE c \in cuts : Cardinality({d \in cuts : d < c}) = k - 1
    IN  [k \in 1..(Cardinality(cuts) - 1) |-> SubSeq(s, cut(k) + 1, cut(k + 1) - 1)]

\* int.from_bytes(bytes.fromhex(h), 'little') for at most one byte: fromhex
\* raises ValueError on a string that is not pairs of hex digits
HexVal(c) == IndexIn(LowerChar(c), HexDigits) - 1

HexPair(hi, lo) ==
    IF hi >= 0 /\ lo >= 0 THEN [exc |-> "", val |-> 16 * hi + lo]
    ELSE [exc |-> "ValueError", val |-> 0]

FromHexByte(h) ==
    IF h = "" THEN [exc |-> "", val |-> 0]
    ELSE IF Len(h) = 2 THEN HexPair(HexVal(Char(h, 1)), HexVal(Char(h, 2)))
    ELSE [exc |-> "ValueError", val |-> 0]

(* A Python number is [num, den, isfloat]: the rational num/den, den > 0, and  *)
(* whether it is a float (which decides how str() writes it).  The floats the  *)
(* program makes are quotients of two ints below 256 and their roundings to    *)
(* two decimals: none lies on a rounding tie, so the exact rational rounds as  *)
(* the double does.                                                            *)
PyInt(n) == [num |-> n, den |-> 1, isfloat |-> FALSE]

PyFloat(n, d) == [num |-> n, den |-> d, isfloat |-> TRUE]

NumLess(a, b) == a.num * b.den < b.num * a.den

\* min(a, b) and max(a, b): Python returns the first argument on a tie
PyMin(a, b) == IF NumLess(b, a) THEN b ELSE a

PyMax(a, b) == IF NumLess(a, b) THEN b ELSE a

\* round(x, 2): an int is returned as it is, a float goes to the nearest
\* hundredth (half to even)
Round2(x) ==
    IF ~x.isfloat THEN x
    ELSE LET q == (100 * x.num) \div x.den
             r == (100 * x.num) % x.den
             h == IF 2 * r > x.den \/ (2 * r = x.den /\ q % 2 = 1) THEN q + 1 ELSE q
         IN  PyFloat(h, 100)

\* str(x) of an int, or of a non-negative float with at most two decimals
NumToStr(x) ==
    IF ~x.isfloat THEN IntToStr(x.num \div x.den)
    ELSE LET h == (100 * x.num) \div x.den
             ip == IntToStr(h \div 100)
             fr == h % 100
         IN  IF fr % 10 = 0 THEN ip \o "." \o IntToStr(fr \div 10)
             ELSE ip \o "." \o IntToStr(fr \div 10) \o IntToStr(fr % 10)

\* float(s) for s of the shape [+-]digits[.digits]; any other string of the
\* model's inputs is one float() rejects
ParseParts(sign, ip, fp) ==
    IF AllDigits(ip) /\ AllDigits(fp) /\ Len(ip) + Len(fp) > 0
    THEN [exc |-> "",
          val |-> PyFloat(sign * (DigitsVal(ip) * Pow10(Len(fp)) + DigitsVal(fp)),
                          Pow10(Len(fp)))]
    ELSE [exc |-> "ValueError", val |-> PyFloat(0, 1)]

ParseUnsigned(sign, body, dot) ==
    IF dot = 0 THEN ParseParts(sign, body, "")
    ELSE ParseParts(sign, SubSeq(body, 1, dot - 1), From(body, dot))

ParseSigned(sign, body) == ParseUnsigned(sign, body, IndexIn(".", body))

ParseFloat(s) ==
    IF StartsWith(s, "-") THEN ParseSigned(-1, From(s, 1))
    ELSE IF StartsWith(s, "+") THEN ParseSigned(1, From(s, 1))
    ELSE ParseSigned(1, s)

----------------------------------------------------------------------------
(* ElementTree *)

NoAttrib == [a \in {} |-> ""]

Elem(tag, attrib, children) == [tag |-> tag, attrib |-> attrib, children |-> children]

\* Python's None where an Element is expected
None == Elem("<None>", NoAttrib, <<>>)

\* Element.find(tag): the first child with that tag, or None
Find(elem, tag) ==
    LET hits == {i \in 1..Len(elem.children) : elem.children[i].tag = tag}
    IN  IF hits = {} THEN None
        ELSE elem.children[CHOOSE i \in hits : \A j \in hits : i <= j]

\* Element.findall(tag) on a sequence of children
FindAll(children, tag) == SelectSeq(children, LAMBDA c : c.tag = tag)

Has(attrib, name) == name \in DOMAIN attrib

\* attrib.get(name, default)
Get(attrib, name, default) == IF Has(attrib, name) THEN attrib[name] ELSE default

\* attrib[name] = value on an output element
SetAttr(attrs, name, value) ==
    IF \E i \in 1..Len(attrs) : attrs[i][1] = name
    THEN [i \in 1..Len(attrs) |-> IF attrs[i][1] = name THEN <<name, value>> ELSE attrs[i]]
    ELSE Append(attrs, <<name, value>>)

HasOut(e, name) == \E i \in 1..Len(e.attrib) : e.attrib[i][1] = name

OutAttr(e, name) == e.attrib[CHOOSE i \in 1..Len(e.attrib) : e.attrib[i][1] = name][2]

----------------------------------------------------------------------------
(* scale, split_argb, image_size *)

\* scale with the byte read as one of 256 levels
scale_256(value, value_max, scaled_max) ==
    IF value = 0 \/ value_max = 0 THEN PyInt(0)
    ELSE PyMax(PyInt(0),
               PyMin(PyFloat(scaled_max * value, value_max + 1), PyInt(scaled_max)))

scale(value, value_max, scaled_max) ==
    IF value = 0 \/ value_max = 0 THEN PyInt(0)
    ELSE LET factor == PyFloat(value, value_max)
         IN  PyMax(PyInt(0),
                   PyMin(PyFloat(scaled_max * factor.num, factor.den), PyInt(scaled_max)))

\* lines 123-125, given color.lower()
named_or_rgb(lowered) ==
    [exc |-> "",
     color |-> IF lowered = "transparent" THEN NO_COLOR ELSE lowered,
     opacity |-> FULL_OPACITY]

\* lines 128-129, given the alpha byte fromhex read
argb(color, alpha) ==
    IF alpha.exc # "" THEN [exc |-> alpha.exc, color |-> "", opacity |-> ""]
    ELSE [exc |-> "",
          color |-> "#" \o Lower(From(color, 3)),
          opacity |-> NumToStr(Round2(scale(alpha.val, 255, 1)))]

split_argb(color) ==
    IF ~StartsWith(color, "#") \/ (StartsWith(color, "#") /\ Len(color) = 7)
    THEN named_or_rgb(Lower(color))
    ELSE argb(color, FromHexByte(Slice(color, 1, 3)))

AllowedSizes == <<8, 12, 16, 24, 32, 48, 64, 96, 128>>

\* the first allowed size, in the tuple's order, whose digits end the key;
\* 0 stands for None
image_size(k) ==
    LET hits == {i \in 1..Len(AllowedSizes) : EndsWith(k, IntToStr(AllowedSizes[i]))}
    IN  IF hits = {} THEN 0
        ELSE AllowedSizes[CHOOSE i \in hits : \A j \in hits : i <= j]

----------------------------------------------------------------------------
(* Output elements *)

OutElem(tag, attrs) == Elem(tag, attrs, <<>>)

svg_root(viewsize, name) ==
    OutElem("svg", << <<"viewBox", "0 0 " \o IntToStr(viewsize) \o " " \o IntToStr(viewsize)>>,
                      <<"xmlns", "http://www.w3.org/2000/svg">>,
                      <<"id", name>> >>)

\* ' '.join(parts)
RECURSIVE Join(_)
Join(parts) ==
    IF parts = <<>> THEN ""
    ELSE IF Len(parts) = 1 THEN parts[1]
    ELSE parts[1] \o " " \o Join(Tail(parts))

\* bool(element): an Element without children is false
Truthy(elem) == elem # None /\ Len(elem.children) > 0

\* the functions svg_group collects; attrib[name] raises KeyError when the
\* attribute is absent, before anything is appended to the parent
\* transform_functions with the rotation written before the translation
transform_functions_rotate_first(translate, rotate) ==
    IF translate # None /\ ~(Has(translate.attrib, ATTR_X) /\ Has(translate.attrib, ATTR_Y))
    THEN [exc |-> "KeyError", list |-> <<>>]
    ELSE IF rotate # None /\ ~Has(rotate.attrib, ATTR_ANGLE)
    THEN [exc |-> "KeyError", list |-> <<>>]
    ELSE [exc |-> "",
          list |->
            (IF rotate # None
             THEN <<"rotate(" \o rotate.attrib[ATTR_ANGLE] \o ")">>
             ELSE <<>>)
            \o (IF translate # None
                THEN <<"translate(" \o translate.attrib[ATTR_X] \o ","
                          \o translate.attrib[ATTR_Y] \o ")">>
                ELSE <<>>)]

\* lines 81-85: the functions of the transform list; attrib[name] raises
\* KeyError when the attribute is absent, before anything is appended
transform_functions(translate, rotate) ==
    IF translate # None /\ ~(Has(translate.attrib, ATTR_X) /\ Has(translate.attrib, ATTR_Y))
    THEN [exc |-> "KeyError", list |-> <<>>]
    ELSE IF rotate # None /\ ~Has(rotate.attrib, ATTR_ANGLE)
    THEN [exc |-> "KeyError", list |-> <<>>]
    ELSE [exc |-> "",
          list |->
            (IF translate # None
             THEN <<"translate(" \o translate.attrib[ATTR_X] \o ","
                       \o translate.attrib[ATTR_Y] \o ")">>
             ELSE <<>>)
            \o (IF rotate # None
                THEN <<"rotate(" \o rotate.attrib[ATTR_ANGLE] \o ")">>
                ELSE <<>>)]

\* line 79: tf_elem.find(ELEM_TRANSFORM_GROUP) or tf_elem
unwrap(grp, tf_elem) == IF Truthy(grp) THEN grp ELSE tf_elem

transform_of(tf) ==
    transform_functions(Find(tf, ELEM_TRANSFORM_TRANSLATE), Find(tf, ELEM_TRANSFORM_ROTATE))

\* lines 77-85
transform_list(tf_elem) ==
    IF tf_elem = None THEN [exc |-> "", list |-> <<>>]
    ELSE transform_of(unwrap(Find(tf_elem, ELEM_TRANSFORM_GROUP), tf_elem))

\* lines 86-89
group_elem(t) ==
    IF t.exc # "" THEN [exc |-> t.exc, els |-> <<>>]
    ELSE IF t.list # <<>>
    THEN [exc |-> "", els |-> <<OutElem("g", << <<"transform", Join(t.list)>> >>)>>]
    ELSE [exc |-> "", els |-> <<OutElem("g", <<>>)>>]

svg_group(tf_elem) == group_elem(transform_list(tf_elem))

\* brush[0] on None raises TypeError, which the except IndexError lets through
\* lines 142-164: the brush definition b
brush_fill(b, color) ==
    IF b.tag = ELEM_SOLID_COLOR_BRUSH
    THEN IF color = "" \/ Lower(color) = "transparent" \/ ~StartsWith(color, "#")
         THEN [exc |-> "", color |-> NO_COLOR, opacity |-> FULL_OPACITY]
         ELSE [exc |-> "", color |-> color,
               opacity |-> Get(b.attrib, ATTR_OPACITY, FULL_OPACITY)]
    ELSE [exc |-> "", color |-> "red", opacity |-> FULL_OPACITY]

process_brush(brush) ==
    IF brush = None THEN [exc |-> "TypeError", color |-> "", opacity |-> ""]
    ELSE IF brush.children = <<>>
    THEN [exc |-> "", color |-> NO_COLOR, opacity |-> FULL_OPACITY]
    ELSE brush_fill(brush.children[1], Get(brush.children[1].attrib, ATTR_COLOR, ""))

\* lines 169-173: the fill and the opacity of a GeometryDrawing
resolve_fill(path_elem) ==
    IF Has(path_elem.attrib, ATTR_BRUSH)
    THEN split_argb(path_elem.attrib[ATTR_BRUSH])
    ELSE process_brush(Find(path_elem, ELEM_GEOMETRY_DRAWING_BRUSH))

\* lines 202-204, reached only when nothing raised before
fill_opacity_attr(els, opacity, f) ==
    IF f.exc # "" THEN [exc |-> f.exc, els |-> els]
    ELSE IF NumLess(f.val, PyInt(1))
    THEN [exc |-> "",
          els |-> <<[els[1] EXCEPT !.attrib = SetAttr(@, "fill-opacity", opacity)]>>]
    ELSE [exc |-> "", els |-> els]

set_fill_opacity(els, opacity) ==
    IF els = <<>> THEN [exc |-> "", els |-> els]
    ELSE fill_opacity_attr(els, opacity, ParseFloat(opacity))

\* lines 185-190
ellipse_at(c, geometry, fill) ==
    IF Len(c) # 2 THEN [exc |-> "ValueError", els |-> <<>>]
    ELSE [exc |-> "",
          els |-> <<OutElem("ellipse",
                      << <<"cx", c[1]>>, <<"cy", c[2]>>,
                         <<"rx", Get(geometry.attrib, ATTR_RADIUS_X, "1")>>,
                         <<"ry", Get(geometry.attrib, ATTR_RADIUS_Y, "1")>>,
                         <<"fill", fill>> >>)>>]

ellipse_elem(geometry, fill) ==
    ellipse_at(Split(Get(geometry.attrib, ATTR_CENTER, "0,0")), geometry, fill)

\* lines 191-198: the Rect string itself is unpacked into x, y, width, height,
\* one character each (ValueError unless it has exactly four), the rect is
\* appended, and the comparison of the character x with the int 0 raises
\* TypeError
unpack_rect(r, fill) ==
    IF Len(r) # 4 THEN [exc |-> "ValueError", els |-> <<>>]
    ELSE [exc |-> "TypeError",
          els |-> <<OutElem("rect", << <<"width", Char(r, 3)>>,
                                      <<"height", Char(r, 4)>>,
                                      <<"fill", fill>> >>)>>]

rectangle_elem(geometry, fill) ==
    unpack_rect(Get(geometry.attrib, ATTR_RECT, "0,0,1,1"), fill)

\* lines 179-200: the geometry sub-object
\* dig that never looks into a GeometryGroup
dig_never(first) == first

\* lines 182-184: a GeometryGroup with one element is replaced by that element
dig(first) ==
    IF first.tag = ELEM_GEOMETRY_GROUP /\ Len(first.children) = 1
    THEN first.children[1] ELSE first

\* lines 185-200
dispatch_geometry(geometry, fill) ==
    IF geometry.tag = ELEM_ELLIPSE THEN ellipse_elem(geometry, fill)
    ELSE IF geometry.tag = ELEM_RECTANGLE THEN rectangle_elem(geometry, fill)
    ELSE [exc |-> "", els |-> <<>>]

geometry_elem(wrapper, fill) ==
    IF wrapper = None THEN [exc |-> "TypeError", els |-> <<>>]
    ELSE IF wrapper.children = <<>> THEN [exc |-> "IndexError", els |-> <<>>]
    ELSE dispatch_geometry(dig(wrapper.children[1]), fill)

\* sub_elem that keeps the "F1 " prefix of the path data
sub_elem_keep_prefix(path_elem, fill) ==
    IF Has(path_elem.attrib, ATTR_GEOMETRY)
    THEN [exc |-> "",
          els |-> <<OutElem("path",
              << <<"d", path_elem.attrib[ATTR_GEOMETRY]>>, <<"fill", fill>> >>)>>]
    ELSE geometry_elem(Find(path_elem, ELEM_GEOMETRY_DRAWING_GEOMETRY), fill)

\* lines 175-200: the element of the geometry, filled
sub_elem(path_elem, fill) ==
    IF Has(path_elem.attrib, ATTR_GEOMETRY)
    THEN [exc |-> "",
          els |-> <<OutElem("path",
              << <<"d", RemovePrefix(path_elem.attrib[ATTR_GEOMETRY], "F1 ")>>,
                 <<"fill", fill>> >>)>>]
    ELSE geometry_elem(Find(path_elem, ELEM_GEOMETRY_DRAWING_GEOMETRY), fill)

with_opacity(sub, opacity) ==
    IF sub.exc # "" THEN sub ELSE set_fill_opacity(sub.els, opacity)

path_filled(path_elem, f) ==
    IF f.exc # "" THEN [exc |-> f.exc, els |-> <<>>]
    ELSE with_opacity(sub_elem(path_elem, f.color), f.opacity)

svg_path(path_elem) == path_filled(path_elem, resolve_fill(path_elem))

RECURSIVE walk(_)

\* one turn of the loops of lines 224-225 and 234-235: the item's output
\* after that of the items before it, unless one of those raised
walk_item(before, w) ==
    IF before.exc # "" THEN before
    ELSE [exc |-> w.exc, els |-> before.els \o w.els]

\* the outputs of the items, in order, up to and with the one that raises
walk_items(items) ==
    LET out[i \in 0..Len(items)] ==
            IF i = 0 THEN [exc |-> "", els |-> <<>>]
            ELSE walk_item(out[i - 1], walk(items[i]))
    IN  out[Len(items)]

\* the items' outputs appended to the element they are walked into
filled(parent_out, w) ==
    [exc |-> w.exc, doc |-> [parent_out EXCEPT !.children = w.els]]

\* the g element of line 223 as the one output of walk
group_out(f) == [exc |-> f.exc, els |-> <<f.doc>>]

\* lines 223-225
walk_group(elem_in, sg) ==
    IF sg.exc # "" THEN sg
    ELSE group_out(filled(sg.els[1], walk_items(elem_in.children)))

walk(elem_in) ==
    IF elem_in.tag = ELEM_DRAWING_GROUP
    THEN walk_group(elem_in, svg_group(Find(elem_in, ELEM_DRAWING_GROUP_TRANSFORM)))
    ELSE IF elem_in.tag = ELEM_GEOMETRY_DRAWING THEN svg_path(elem_in)
    ELSE [exc |-> "", els |-> <<>>]

drawing_to_svg(xaml, viewsize, name) ==
    filled(svg_root(viewsize, name), walk_items(xaml.children))

\* Path(key).with_suffix(suffix) for a key without a path separator
\* (pathlib of Python 3.11): the part of the name from its last dot on, when
\* that dot is neither the first nor the last character, is replaced
with_suffix(key, suffix) ==
    LET dots == {i \in 1..Len(key) : Char(key, i) = "."}
        last == IF dots = {} THEN 0 ELSE CHOOSE i \in dots : \A j \in dots : j <= i
    IN  IF 1 < last /\ last < Len(key)
        THEN SubSeq(key, 1, last - 1) \o suffix
        ELSE key \o suffix

----------------------------------------------------------------------------
(* Inputs *)

\* the sequences over S of length at most n
RECURSIVE SeqsUpTo(_, _)
SeqsUpTo(S, n) ==
    IF n = 0 THEN {<<>>}
    ELSE LET shorter == SeqsUpTo(S, n - 1)
         IN  shorter \cup {Append(q, x) : q \in {r \in shorter : Len(r) = n - 1}, x \in S}

GD(attrib, children) == Elem(ELEM_GEOMETRY_DRAWING, attrib, children)

BrushWrapper(children) == Elem(ELEM_GEOMETRY_DRAWING_BRUSH, NoAttrib, children)

GeometryWrapper(children) == Elem(ELEM_GEOMETRY_DRAWING_GEOMETRY, NoAttrib, children)

Solid(attrib) == Elem(ELEM_SOLID_COLOR_BRUSH, attrib, <<>>)

\* keys for image_size: a name that does not end in a digit, then a suffix
KeyNames == {"", "icon", "Close", "a.", "x-", "Save_"}

KeySuffixes == {"", "7", "8", "12", "16", "24", "32", "48", "64", "96", "128"}

SizeKeys == {n \o x : n \in KeyNames, x \in KeySuffixes}

\* colors for split_argb: every alpha byte, in both letter cases
RgbParts == {"112233", "224466", "AbCdEf"}

HexByteUpper(a) == Char("0123456789ABCDEF", (a \div 16) + 1) \o Char("0123456789ABCDEF", (a % 16) + 1)

ArgbColors ==
    {"#" \o HexByteUpper(a) \o rgb : a \in 0..255, rgb \in RgbParts}
    \cup {"#" \o Lower(HexByteUpper(a)) \o "aabbcc" : a \in 0..255}

OtherColors == {"#aBcDeF", "#224466", "Red", "Transparent", "TRANSPARENT", "", "#GG112233"}

\* the fill of a GeometryDrawing: the Brush attribute, or the brush child
InlineBrushes == {"#80112233", "#FF224466", "#00112233", "#aBcDeF", "Red", "Transparent"}

BrushChildren ==
    { <<>>,
      <<BrushWrapper(<<>>)>>,
      <<BrushWrapper(<<Solid([Color |-> "#FF0000"])>>)>>,
      <<BrushWrapper(<<Solid([Color |-> "#FF0000", Opacity |-> "0.5"])>>)>>,
      <<BrushWrapper(<<Solid([Color |-> "#FF0000", Opacity |-> "1"])>>)>>,
      <<BrushWrapper(<<Solid([Color |-> "#FF0000", Opacity |-> "half"])>>)>>,
      <<BrushWrapper(<<Solid([Color |-> "Transparent"])>>)>>,
      <<BrushWrapper(<<Solid([Color |-> "Red"])>>)>>,
      <<BrushWrapper(<<Solid(NoAttrib)>>)>>,
      <<BrushWrapper(<<Elem(ELEM_RADIAL_GRADIENT_BRUSH, NoAttrib, <<>>)>>)>> }

\* geometry objects that are not groups
PlainGeometries ==
    { Elem(ELEM_ELLIPSE, NoAttrib, <<>>),
      Elem(ELEM_ELLIPSE, [Center |-> "3,4", RadiusX |-> "2", RadiusY |-> "5"], <<>>),
      Elem(ELEM_ELLIPSE, [Center |-> "3"], <<>>),
      Elem(ELEM_RECTANGLE, NoAttrib, <<>>),
      Elem(ELEM_RECTANGLE, [Rect |-> "0,0,10,20"], <<>>),
      Elem(ELEM_RECTANGLE, [Rect |-> "5,5,10,20"], <<>>),
      Elem(ELEM_RECTANGLE, [Rect |-> "1234"], <<>>),
      Elem("LineGeometry", NoAttrib, <<>>) }

\* the members of a GeometryGroup with several children
GroupMembers ==
    { Elem(ELEM_ELLIPSE, NoAttrib, <<>>),
      Elem(ELEM_ELLIPSE, [Center |-> "3"], <<>>),
      Elem(ELEM_RECTANGLE, [Rect |-> "0,0,10,20"], <<>>),
      Elem("LineGeometry", NoAttrib, <<>>) }

GeometryGroups ==
    {Elem(ELEM_GEOMETRY_GROUP, NoAttrib, cs) :
        cs \in SeqsUpTo(GroupMembers, MaxGeoms)
               \cup {<<g>> : g \in PlainGeometries}
               \cup {<<Elem(ELEM_GEOMETRY_GROUP, NoAttrib, <<g>>)>> : g \in PlainGeometries}}

GeometryChildren ==
    {<<>>, <<GeometryWrapper(<<>>)>>}
    \cup {<<GeometryWrapper(<<g>>)>> : g \in PlainGeometries \cup GeometryGroups}

InlineGeometries == {"F1 M0,0 L10,10", "M1,1 F1 Z"}

GeometryDrawings ==
    {GD([Brush |-> b, Geometry |-> d], <<>>) : b \in InlineBrushes, d \in InlineGeometries}
    \cup {GD([Brush |-> b], gc) : b \in InlineBrushes, gc \in GeometryChildren}
    \cup {GD([Geometry |-> d], bc) : bc \in BrushChildren, d \in InlineGeometries}
    \cup {GD(NoAttrib, bc \o gc) : bc \in BrushChildren, gc \in GeometryChildren}

\* the children of a DrawingGroup.Transform element
PlainTransforms ==
    { Elem(ELEM_TRANSFORM_TRANSLATE, [X |-> "1", Y |-> "2"], <<>>),
      Elem(ELEM_TRANSFORM_TRANSLATE, [X |-> "-3.5", Y |-> "0"], <<>>),
      Elem(ELEM_TRANSFORM_TRANSLATE, [X |-> "1"], <<>>),
      Elem(ELEM_TRANSFORM_ROTATE, [Angle |-> "45"], <<>>),
      Elem(ELEM_TRANSFORM_ROTATE, NoAttrib, <<>>),
      Elem("ScaleTransform", NoAttrib, <<>>) }

TransformChildren ==
    SeqsUpTo(PlainTransforms, MaxTransforms)
    \cup {<<Elem(ELEM_TRANSFORM_GROUP, NoAttrib, cs)>> \o rest :
            cs \in SeqsUpTo(PlainTransforms, MaxTransforms),
            rest \in SeqsUpTo(PlainTransforms, 1)}

TransformElems ==
    {None} \cup {Elem(ELEM_DRAWING_GROUP_TRANSFORM, NoAttrib, cs) : cs \in TransformChildren}

\* drawing trees for walk
ClosePath == GD([Brush |-> "#FF224466", Geometry |-> "F1 M0,0 L10,10"], <<>>)

LeafItems ==
    { ClosePath,
      GD([Brush |-> "#80112233"], <<GeometryWrapper(<<Elem(ELEM_ELLIPSE, NoAttrib, <<>>)>>)>>),
      GD([Brush |-> "Red"], <<GeometryWrapper(<<Elem("LineGeometry", NoAttrib, <<>>)>>)>>),
      GD([Brush |-> "Red"],
         <<GeometryWrapper(<<Elem(ELEM_RECTANGLE, [Rect |-> "0,0,10,20"], <<>>)>>)>>),
      Elem("ImageDrawing", NoAttrib, <<>>),
      Elem(ELEM_DRAWING_GROUP_TRANSFORM, NoAttrib,
           <<Elem(ELEM_TRANSFORM_ROTATE, [Angle |-> "45"], <<>>)>>) }

\* the items of a nested DrawingGroup
InnerItems ==
    { ClosePath,
      GD([Brush |-> "Red"],
         <<GeometryWrapper(<<Elem(ELEM_RECTANGLE, [Rect |-> "0,0,10,20"], <<>>)>>)>>),
      Elem(ELEM_DRAWING_GROUP_TRANSFORM, NoAttrib,
           <<Elem(ELEM_TRANSFORM_TRANSLATE, [X |-> "1", Y |-> "2"], <<>>)>>) }

InnerGroups ==
    {Elem(ELEM_DRAWING_GROUP, NoAttrib, cs) : cs \in SeqsUpTo(InnerItems, MaxItems - 1)}

DrawingTrees ==
    {Elem(ELEM_DRAWING_GROUP, NoAttrib, cs) :
        cs \in SeqsUpTo(LeafItems \cup InnerGroups, MaxItems)}

\* the entries of a ResourceDictionary for main
Drawing(children) == Elem(ELEM_DRAWING_IMAGE_DRAWING, NoAttrib, children)

DegradedDrawing ==
    Drawing(<<Elem(ELEM_DRAWING_GROUP, NoAttrib,
        << GD([Geometry |-> "F1 M0,0 L10,10"], <<BrushWrapper(<<>>)>>),
           GD([Brush |-> "Transparent"],
              <<GeometryWrapper(<<Elem(ELEM_ELLIPSE, NoAttrib, <<>>)>>)>>),
           GD(NoAttrib,
              << BrushWrapper(<<Elem(ELEM_RADIAL_GRADIENT_BRUSH, NoAttrib, <<>>)>>),
                 GeometryWrapper(<<Elem(ELEM_ELLIPSE, [Center |-> "3,4", RadiusX |-> "2"], <<>>)>>) >>),
           GD([Brush |-> "Red"],
              <<GeometryWrapper(<<Elem("LineGeometry", NoAttrib, <<>>)>>)>>) >>)>>)

Image(attrib, children) == Elem(ELEM_DRAWING_IMAGE, attrib, children)

GroupDrawing == Drawing(<<Elem(ELEM_DRAWING_GROUP, NoAttrib, <<ClosePath>>)>>)

RectangleDrawing ==
    Drawing(<<GD([Brush |-> "#FF224466"],
        <<GeometryWrapper(<<Elem(ELEM_RECTANGLE, [Rect |-> "0,0,10,20"], <<>>)>>)>>)>>)

\* entries without key, size or drawing, entries that convert, entries whose
\* GeometryDrawing holds a rectangle or lacks its brush or its geometry, and
\* a resource that is no DrawingImage
RootChildren ==
    { Image(NoAttrib, <<GroupDrawing>>),
      Image(ATTR_KEY :> "icon7", <<GroupDrawing>>),
      Image(ATTR_KEY :> "Close16", <<>>),
      Image(ATTR_KEY :> "Close16", <<GroupDrawing>>),
      Image(ATTR_KEY :> "Close16", <<DegradedDrawing>>),
      Image(ATTR_KEY :> "Close16", <<RectangleDrawing>>),
      Image(ATTR_KEY :> "a.16", <<GroupDrawing>>),
      Image(ATTR_KEY :> "a.32", <<DegradedDrawing>>),
      Image(ATTR_KEY :> "a.32", <<Drawing(<<GD([Geometry |-> "F1 M0,0 L10,10"], <<>>)>>)>>),
      Image(ATTR_KEY :> "a.16", <<Drawing(<<GD([Brush |-> "#FF224466"], <<>>)>>)>>),
      Elem(ELEM_SOLID_COLOR_BRUSH, ATTR_KEY :> "Accent16", <<>>) }

----------------------------------------------------------------------------
(* main *)

\* root.findall(ELEM_DRAWING_IMAGE), evaluated once when the loop starts
Images == FindAll(root, ELEM_DRAWING_IMAGE)

\* the entry main's loop is at
Current == Images[pos]

Key(img) == Get(img.attrib, ATTR_KEY, "")

\* tree_out.write(output_dir / name): one full write, replacing a file of that name
WriteFile(fs, name, doc) ==
    {f \in fs : f.name # name} \cup {[name |-> name, doc |-> doc]}

Init ==
    /\ \/ wellformed = TRUE /\ root \in SeqsUpTo(RootChildren, MaxEntries)
       \/ wellformed = FALSE /\ root = <<>>
    /\ pos = 1
    /\ files = {}
    /\ pc = "start"
    /\ call = [fn |-> "main"]
    /\ ret = [exc |-> ""]

\* lines 244-248
Parse ==
    /\ pc = "start"
    /\ wellformed
    /\ pc' = "loop"
    /\ UNCHANGED <<wellformed, root, pos, files, call, ret>>

ParseFails ==
    /\ pc = "start"
    /\ ~wellformed
    /\ pc' = "raised"
    /\ ret' = [exc |-> "ParseError"]
    /\ UNCHANGED <<wellformed, root, pos, files, call>>

\* lines 253-256
SkipNoKey ==
    /\ pc = "loop" /\ pos <= Len(Images)
    /\ Key(Current) = ""
    /\ pos' = pos + 1
    /\ UNCHANGED <<wellformed, root, files, pc, call, ret>>

\* lines 259-262
SkipNoSize ==
    /\ pc = "loop" /\ pos <= Len(Images)
    /\ Key(Current) # ""
    /\ image_size(Key(Current)) = 0
    /\ pos' = pos + 1
    /\ UNCHANGED <<wellformed, root, files, pc, call, ret>>

\* lines 265-268
SkipNoDrawing ==
    /\ pc = "loop" /\ pos <= Len(Images)
    /\ Key(Current) # ""
    /\ image_size(Key(Current)) # 0
    /\ Find(Current, ELEM_DRAWING_IMAGE_DRAWING) = None
    /\ pos' = pos + 1
    /\ UNCHANGED <<wellformed, root, files, pc, call, ret>>

Survives(img) ==
    /\ Key(img) # ""
    /\ image_size(Key(img)) # 0
    /\ Find(img, ELEM_DRAWING_IMAGE_DRAWING) # None

Converted(img) ==
    drawing_to_svg(Find(img, ELEM_DRAWING_IMAGE_DRAWING), image_size(Key(img)), Key(img))

\* lines 271-274
Convert ==
    /\ pc = "loop" /\ pos <= Len(Images)
    /\ Survives(Current)
    /\ \E svg_out \in {Converted(Current)} :
          /\ svg_out.exc = ""
          /\ files' = WriteFile(files, with_suffix(Key(Current), ".svg"), svg_out.doc)
    /\ pos' = pos + 1
    /\ UNCHANGED <<wellformed, root, pc, call, ret>>

\* an exception of drawing_to_svg leaves main: no handler is between them
ConvertRaises ==
    /\ pc = "loop" /\ pos <= Len(Images)
    /\ Survives(Current)
    /\ \E svg_out \in {Converted(Current)} :
          /\ svg_out.exc # ""
          /\ ret' = [exc |-> svg_out.exc]
    /\ pc' = "raised"
    /\ UNCHANGED <<wellformed, root, pos, files, call>>

Finish ==
    /\ pc = "loop" /\ pos > Len(Images)
    /\ pc' = "done"
    /\ UNCHANGED <<wellformed, root, pos, files, call, ret>>

Next ==
    \/ Parse
    \/ ParseFails
    \/ SkipNoKey
    \/ SkipNoSize
    \/ SkipNoDrawing
    \/ Convert
    \/ ConvertRaises
    \/ Finish

Spec == Init /\ [][Next]_vars

----------------------------------------------------------------------------
(* Direct calls of the functions *)

InitCalls ==
    /\ wellformed = TRUE
    /\ root = <<>>
    /\ pos = 1
    /\ files = {}
    /\ pc = "call"
    /\ ret = [exc |-> ""]
    /\ \/ \E k \in SizeKeys : call = [fn |-> "image_size", k |-> k]
       \/ \E c \in ArgbColors \cup OtherColors : call = [fn |-> "split_argb", color |-> c]
       \/ \E e \in GeometryDrawings : call = [fn |-> "svg_path", path_elem |-> e]
       \/ \E t \in TransformElems : call = [fn |-> "svg_group", tf_elem |-> t]
       \/ \E d \in DrawingTrees \cup LeafItems : call = [fn |-> "walk", elem_in |-> d]

CallImageSize ==
    /\ pc = "call" /\ call.fn = "image_size"
    /\ ret' = [exc |-> "", size |-> image_size(call.k)]
    /\ pc' = "returned"
    /\ UNCHANGED <<wellformed, root, pos, files, call>>

CallSplitArgb ==
    /\ pc = "call" /\ call.fn = "split_argb"
    /\ ret' = split_argb(call.color)
    /\ pc' = "returned"
    /\ UNCHANGED <<wellformed, root, pos, files, call>>

CallSvgPath ==
    /\ pc = "call" /\ call.fn = "svg_path"
    /\ ret' = svg_path(call.path_elem)
    /\ pc' = "returned"
    /\ UNCHANGED <<wellformed, root, pos, files, call>>

CallSvgGroup ==
    /\ pc = "call" /\ call.fn = "svg_group"
    /\ ret' = svg_group(call.tf_elem)
    /\ pc' = "returned"
    /\ UNCHANGED <<wellformed, root, pos, files, call>>

CallWalk ==
    /\ pc = "call" /\ call.fn = "walk"
    /\ ret' = walk(call.elem_in)
    /\ pc' = "returned"
    /\ UNCHANGED <<wellformed, root, pos, files, call>>

NextCalls ==
    \/ CallImageSize
    \/ CallSplitArgb
    \/ CallSvgPath
    \/ CallSvgGroup
    \/ CallWalk

SpecCalls == InitCalls /\ [][NextCalls]_vars

----------------------------------------------------------------------------
(* Claims *)

Returned(fn) == pc = "returned" /\ call.fn = fn

SurvivingKeys == {Key(Images[i]) : i \in {j \in 1..Len(Images) : Survives(Images[j])}}

\* C1: during a run of main over a parsable dictionary no entry-level or
\* construct-level problem aborts the batch: main never ends by an exception,
\* and when it is done every surviving entry has had its file written.
C1_BatchNeverAborts ==
    wellformed =>
        /\ pc # "raised"
        /\ pc = "done" =>
             \A k \in SurvivingKeys : \E f \in files : f.name = with_suffix(k, ".svg")

\* C2: for every allowed size s and every key made of a name that does not
\* end in a digit followed by the digits of s, image_size(key) = s; a key
\* whose suffix is the digit 7 yields None.
C2_ExactSuffix ==
    Returned("image_size") =>
        \A n \in KeyNames :
            /\ \A i \in 1..Len(AllowedSizes) :
                 call.k = n \o IntToStr(AllowedSizes[i]) => ret.size = AllowedSizes[i]
            /\ call.k = n \o "7" => ret.size = 0

\* the RectangleGeometry a GeometryDrawing with an inline Brush holds as the
\* first child of its geometry sub-object
HasRectangle(pe) ==
    /\ Has(pe.attrib, ATTR_BRUSH) /\ ~Has(pe.attrib, ATTR_GEOMETRY)
    /\ Find(pe, ELEM_GEOMETRY_DRAWING_GEOMETRY) # None
    /\ Find(pe, ELEM_GEOMETRY_DRAWING_GEOMETRY).children # <<>>
    /\ Find(pe, ELEM_GEOMETRY_DRAWING_GEOMETRY).children[1].tag = ELEM_RECTANGLE

RectOf(pe) ==
    Split(Get(Find(pe, ELEM_GEOMETRY_DRAWING_GEOMETRY).children[1].attrib, ATTR_RECT, "0,0,1,1"))

\* C3: for a RectangleGeometry with Rect = "x,y,w,h" (default "0,0,1,1")
\* svg_path appends exactly one rect element with width w and height h, with
\* an x attribute only when x > 0 and a y attribute only when y > 0.
C3_RectElement ==
    (Returned("svg_path") /\ HasRectangle(call.path_elem)
        /\ Len(RectOf(call.path_elem)) = 4) =>
        /\ ret.exc = ""
        /\ Len(ret.els) = 1
        /\ ret.els[1].tag = "rect"
        /\ OutAttr(ret.els[1], "width") = RectOf(call.path_elem)[3]
        /\ OutAttr(ret.els[1], "height") = RectOf(call.path_elem)[4]
        /\ HasOut(ret.els[1], "x") <=> DigitsVal(RectOf(call.path_elem)[1]) > 0
        /\ HasOut(ret.els[1], "x") => OutAttr(ret.els[1], "x") = RectOf(call.path_elem)[1]
        /\ HasOut(ret.els[1], "y") <=> DigitsVal(RectOf(call.path_elem)[2]) > 0
        /\ HasOut(ret.els[1], "y") => OutAttr(ret.els[1], "y") = RectOf(call.path_elem)[2]

\* the alpha bytes a color #AARRGGBB can have been written from
AlphasOf(color) ==
    {a \in 0..255 : Slice(color, 1, 3) \in {HexByteUpper(a), Lower(HexByteUpper(a))}}

\* the number a string of split_argb's opacity stands for is within half a
\* hundredth of a/255, has at most two decimals and lies in [0, 1]
IsRoundedScale(o, a) ==
    /\ o.exc = ""
    /\ o.val.den \in {1, 10, 100}
    /\ 0 <= o.val.num /\ o.val.num <= o.val.den
    /\ 200 * (255 * o.val.num - a * o.val.den) <= 255 * o.val.den
    /\ 200 * (a * o.val.den - 255 * o.val.num) <= 255 * o.val.den

\* C4: for every 8-digit hex color #AARRGGBB split_argb returns the color
\* #rrggbb (the last six digits, lowercased) and an opacity equal to
\* alpha/255 rounded to two decimals, in [0, 1]; #80112233 gives #112233 and
\* 0.5, alpha 00 gives 0 and alpha FF gives 1.
C4_ArgbOpacity ==
    (Returned("split_argb") /\ call.color \in ArgbColors) =>
        /\ ret.exc = ""
        /\ ret.color = "#" \o Lower(SubSeq(call.color, 4, 9))
        /\ \A a \in AlphasOf(call.color) : IsRoundedScale(ParseFloat(ret.opacity), a)
        /\ call.color = "#80112233" => ret.color = "#112233" /\ ret.opacity = "0.5"
        /\ 0 \in AlphasOf(call.color) => ParseFloat(ret.opacity).val.num = 0
        /\ 255 \in AlphasOf(call.color) =>
             ParseFloat(ret.opacity).val.num = ParseFloat(ret.opacity).val.den

C4_Witness ==
    /\ Returned("split_argb")
    /\ call.color = "#80112233"
    /\ AlphasOf(call.color) = {128}
    /\ ret.opacity = "0.5"

\* C5: main writes each surviving entry to the file named exactly <key>.svg,
\* so two surviving entries with different keys never write to the same file
\* name, also for keys that contain a dot.
C5_OneFilePerKey ==
    (wellformed /\ pc = "done") =>
        /\ \A k \in SurvivingKeys : \E f \in files : f.name = k \o ".svg"
        /\ Cardinality(files) = Cardinality(SurvivingKeys)

\* the dictionary of the Close16 scenario
CloseDict ==
    <<Elem(ELEM_DRAWING_IMAGE, ATTR_KEY :> "Close16",
           <<Drawing(<<Elem(ELEM_DRAWING_GROUP, NoAttrib, <<ClosePath>>)>>)>>)>>

ClosePathOut == OutElem("path", << <<"d", "M0,0 L10,10">>, <<"fill", "#224466">> >>)

\* the one file of the scenario is Close16.svg, an svg root with viewBox
\* "0 0 16 16" and id "Close16" and the given content
CloseFile(content) ==
    /\ Cardinality(files) = 1
    /\ \A f \in files :
         /\ f.name = "Close16.svg"
         /\ f.doc.tag = "svg"
         /\ OutAttr(f.doc, "viewBox") = "0 0 16 16"
         /\ OutAttr(f.doc, "id") = "Close16"
         /\ f.doc.children = content

\* C6 as stated: the content of the svg root of Close16.svg is the path
\* element itself.
C6_PathIsRootContent ==
    (pc = "done" /\ root = CloseDict) => CloseFile(<<ClosePathOut>>)

\* C6, amended: the content of the svg root of Close16.svg is one g element
\* without attributes, the output of the drawing group, whose content is the
\* path element with d="M0,0 L10,10", fill="#224466" and no fill-opacity.
C6_PathInsideGroup ==
    (pc = "done" /\ root = CloseDict) =>
        CloseFile(<<Elem("g", <<>>, <<ClosePathOut>>)>>)

C6_Witness ==
    /\ pc = "done"
    /\ root = CloseDict
    /\ \E f \in files : f.name = "Close16.svg" /\ Len(f.doc.children) = 1

\* the GeometryGroup that is the first child of the geometry sub-object
HasGeometryGroup(pe) ==
    /\ ~Has(pe.attrib, ATTR_GEOMETRY)
    /\ Find(pe, ELEM_GEOMETRY_DRAWING_GEOMETRY) # None
    /\ Find(pe, ELEM_GEOMETRY_DRAWING_GEOMETRY).children # <<>>
    /\ Find(pe, ELEM_GEOMETRY_DRAWING_GEOMETRY).children[1].tag = ELEM_GEOMETRY_GROUP

GroupOf(pe) == Find(pe, ELEM_GEOMETRY_DRAWING_GEOMETRY).children[1]

\* the GeometryDrawing with geometry g as the first child of its sub-object
WithGeometry(pe, g) ==
    [pe EXCEPT !.children =
        [i \in 1..Len(pe.children) |->
            IF pe.children[i].tag = ELEM_GEOMETRY_DRAWING_GEOMETRY
            THEN [pe.children[i] EXCEPT !.children[1] = g]
            ELSE pe.children[i]]]

\* C7: a GeometryGroup with exactly one child, not itself a group, gives what
\* that child gives as the first child directly; a GeometryGroup with zero or
\* with two or more children, or whose single child is again a group, is
\* unsupported: svg_path, once it has resolved the fill, appends no element
\* and returns.
C7_SingleChildGroup ==
    (Returned("svg_path") /\ HasGeometryGroup(call.path_elem)) =>
        IF /\ Len(GroupOf(call.path_elem).children) = 1
           /\ GroupOf(call.path_elem).children[1].tag # ELEM_GEOMETRY_GROUP
        THEN ret = svg_path(WithGeometry(call.path_elem, GroupOf(call.path_elem).children[1]))
        ELSE /\ ret.els = <<>>
             /\ resolve_fill(call.path_elem).exc = "" => ret.exc = ""

C7_Witness ==
    /\ Returned("svg_path")
    /\ HasGeometryGroup(call.path_elem)
    /\ Len(GroupOf(call.path_elem).children) = 1
    /\ GroupOf(call.path_elem).children[1].tag = ELEM_ELLIPSE
    /\ ret.exc = ""
    /\ Len(ret.els) = 1
    /\ ret.els[1].tag = "ellipse"

\* the first element with the tag among cs, as a sequence of at most one
FirstOf(cs, tag) ==
    IF FindAll(cs, tag) = <<>> THEN <<>> ELSE <<Head(FindAll(cs, tag))>>

\* the transform attribute for a translation t and a rotation r, each a
\* sequence of at most one element
ExpectedTransform(t, r) ==
    IF t # <<>> /\ r # <<>>
    THEN << <<"transform", "translate(" \o t[1].attrib[ATTR_X] \o "," \o t[1].attrib[ATTR_Y]
                             \o ") rotate(" \o r[1].attrib[ATTR_ANGLE] \o ")">> >>
    ELSE IF t # <<>>
    THEN << <<"transform", "translate(" \o t[1].attrib[ATTR_X] \o "," \o t[1].attrib[ATTR_Y] \o ")">> >>
    ELSE IF r # <<>>
    THEN << <<"transform", "rotate(" \o r[1].attrib[ATTR_ANGLE] \o ")">> >>
    ELSE <<>>

\* every translation among cs has its dx and dy, every rotation its angle
Complete(cs) ==
    \A i \in 1..Len(cs) :
        /\ cs[i].tag = ELEM_TRANSFORM_TRANSLATE =>
             Has(cs[i].attrib, ATTR_X) /\ Has(cs[i].attrib, ATTR_Y)
        /\ cs[i].tag = ELEM_TRANSFORM_ROTATE => Has(cs[i].attrib, ATTR_ANGLE)

IsWrapped(tf) ==
    tf # None /\ Len(tf.children) = 1 /\ tf.children[1].tag = ELEM_TRANSFORM_GROUP

\* the translate and rotate elements the transform element declares
Declared(tf) ==
    IF tf = None THEN <<>>
    ELSE IF IsWrapped(tf) THEN tf.children[1].children
    ELSE tf.children

\* C8: svg_group appends exactly one g element; its transform attribute is
\* "translate(dx,dy) rotate(angle)" when a translation and a rotation are
\* present, only the one function when one is present, and absent when
\* neither is; the same g results whether the elements sit directly under
\* the transform element or inside a TransformGroup wrapper.
C8_GroupTransform ==
    (/\ Returned("svg_group")
     /\ call.tf_elem # None => FindAll(call.tf_elem.children, ELEM_TRANSFORM_GROUP) = <<>>
                                 \/ IsWrapped(call.tf_elem)
     /\ Complete(Declared(call.tf_elem))) =>
        /\ ret.exc = ""
        /\ ret.els = <<Elem("g",
                            ExpectedTransform(
                                FirstOf(Declared(call.tf_elem), ELEM_TRANSFORM_TRANSLATE),
                                FirstOf(Declared(call.tf_elem), ELEM_TRANSFORM_ROTATE)),
                            <<>>)>>
        /\ IsWrapped(call.tf_elem) =>
             ret = svg_group([call.tf_elem EXCEPT !.children = Declared(call.tf_elem)])

C8_Witness ==
    /\ Returned("svg_group")
    /\ IsWrapped(call.tf_elem)
    /\ Len(Declared(call.tf_elem)) = 2
    /\ Declared(call.tf_elem)[1].tag = ELEM_TRANSFORM_ROTATE
    /\ Declared(call.tf_elem)[2].tag = ELEM_TRANSFORM_TRANSLATE
    /\ ret.els = <<Elem("g", << <<"transform", "translate(1,2) rotate(45)">> >>, <<>>)>>

\* the g element that mirrors a DrawingGroup: in the order of its children,
\* the mirror of each DrawingGroup and the output of each GeometryDrawing
RECURSIVE Mirror(_)
Mirror(grp) ==
    LET outs[i \in 0..Len(grp.children)] ==
            IF i = 0 THEN <<>>
            ELSE outs[i - 1]
                 \o (IF grp.children[i].tag = ELEM_DRAWING_GROUP
                     THEN <<Mirror(grp.children[i])>>
                     ELSE IF grp.children[i].tag = ELEM_GEOMETRY_DRAWING
                     THEN svg_path(grp.children[i]).els
                     ELSE <<>>)
    IN  Elem("g", group_elem(transform_list(Find(grp, ELEM_DRAWING_GROUP_TRANSFORM))).els[1].attrib,
             outs[Len(grp.children)])

\* C9: for every drawing tree walk yields, for each DrawingGroup, exactly one
\* g element whose children are, in the same order, the outputs of the
\* group's DrawingGroup and GeometryDrawing children; children of any other
\* kind contribute nothing.
C9_WalkMirrors ==
    (Returned("walk") /\ call.elem_in.tag = ELEM_DRAWING_GROUP) =>
        /\ ret.exc = ""
        /\ ret.els = <<Mirror(call.elem_in)>>

\* C10: every leaf element svg_path appends carries a fill attribute, and a
\* fill-opacity attribute exactly when the resolved opacity is a number
\* strictly less than 1.
C10_FillOpacity ==
    Returned("svg_path") =>
        \A i \in 1..Len(ret.els) :
            /\ HasOut(ret.els[i], "fill")
            /\ HasOut(ret.els[i], "fill-opacity") <=>
                 /\ ParseFloat(resolve_fill(call.path_elem).opacity).exc = ""
                 /\ NumLess(ParseFloat(resolve_fill(call.path_elem).opacity).val, PyInt(1))

=============================================================================
